---------------------------- MODULE Spec2Model ----------------------------
(***************************************************************************)
(* Model of reward.py: GSM8K answer extraction (extract_solution), the     *)
(* three-tier reward (compute_score) and the TRL batch reward function     *)
(* (trl_reward_fn).                                                        *)
(*                                                                         *)
(* A Python str is a sequence of one-character strings.  Optional[str] is  *)
(* a sequence of length 0 (None) or 1 (the string).  Rewards are integers  *)
(* in tenths (1.0 -> 10, 0.3 -> 3, -0.3 -> -3, 0.0 -> 0).                  *)
(***************************************************************************)
EXTENDS Integers, Sequences, FiniteSets, TLC

VARIABLES
    fn,            \* the function the caller invoked ("" before any call)
    pc,            \* "idle", "loop", "except", "return", "done"
    solution_str,  \* argument of extract_solution / compute_score
    ground_truth,  \* argument of compute_score
    method,        \* argument of extract_solution / compute_score
    format_score,  \* argument of compute_score
    score,         \* argument of compute_score
    completions,   \* argument of trl_reward_fn
    solution,      \* argument of trl_reward_fn
    idx,           \* trl_reward_fn: pairs consumed by the for loop so far
    rewards,       \* trl_reward_fn: the local list `rewards`
    exc,           \* exception that reached the caller ("" if none)
    answer,        \* value returned by extract_solution (Optional[str])
    reward,        \* value returned by compute_score
    returned,      \* value returned by trl_reward_fn
    extractCalls   \* calls of extract_solution made on behalf of the caller

vars == <<fn, pc, solution_str, ground_truth, method, format_score, score,
          completions, solution, idx, rewards, exc, answer, reward, returned,
          extractCalls>>

---------------------------------------------------------------------------
(* Module-level constants of reward.py *)

_SOLUTION_CLIP_CHARS == 300
_INVALID_ANSWERS == { <<>>, <<".">> }

REWARD_CORRECT == 10
REWARD_FORMAT_CORRECT == 3
REWARD_NO_ANSWER == -3
REWARD_WRONG == 0

None == <<>>
Some(s) == <<s>>

---------------------------------------------------------------------------
(* The two regular expressions, as re.findall evaluates them *)

Digits == {"0", "1", "2", "3", "4", "5", "6", "7", "8", "9"}

\* the character class [0-9\.\,]
IsNumChar(c) == c \in Digits \cup {".", ","}

\* [0-9\.\,]* greedily from position i: the position after the run
RECURSIVE RunEnd(_, _)
RunEnd(s, i) ==
    IF i <= Len(s) /\ IsNumChar(s[i]) THEN RunEnd(s, i + 1) ELSE i

\* (\-?[0-9\.\,]+) at position i: the position after the match, 0 if none.
\* The optional minus is tried first; without a following class character
\* the engine backtracks to the empty alternative of \-?.
MatchNumber(s, i) ==
    LET j == IF i <= Len(s) /\ s[i] = "-" THEN i + 1 ELSE i
        e == RunEnd(s, j)
    IN  IF e > j THEN e
        ELSE IF RunEnd(s, i) > i THEN RunEnd(s, i)
        ELSE 0

Marker == <<"#", "#", "#", "#", " ">>

\* _STRICT_ANSWER_PATTERN at position i: [end, group start], end = 0 if none
MatchStrict(s, i) ==
    IF i + 4 <= Len(s) /\ s[i] = "#" /\ SubSeq(s, i, i + 4) = Marker
    THEN [end |-> MatchNumber(s, i + 5), from |-> i + 5]
    ELSE [end |-> 0, from |-> 0]

\* _FLEXIBLE_ANSWER_PATTERN at position i
MatchFlexible(s, i) == [end |-> MatchNumber(s, i), from |-> i]

MatchAt(strict, s, i) == IF strict THEN MatchStrict(s, i) ELSE MatchFlexible(s, i)

\* the search step of re.findall: the leftmost position at or after i where
\* the pattern matches, 0 if there is none
NextMatch(strict, s, i) ==
    LET starts == { p \in i..Len(s) : MatchAt(strict, s, p).end > 0 }
    IN  IF starts = {} THEN 0
        ELSE CHOOSE p \in starts : \A q \in starts : p <= q

\* re.findall: non-overlapping matches left to right, each reported as its
\* group 1; after a match the scan resumes where the match ended.
RECURSIVE FindAllFrom(_, _, _)
FindAllFrom(strict, s, i) ==
    LET p == NextMatch(strict, s, i)
    IN  IF p = 0 THEN <<>>
        ELSE LET m == MatchAt(strict, s, p)
             IN  <<SubSeq(s, m.from, m.end - 1)>> \o FindAllFrom(strict, s, m.end)

FindAll(strict, s) == FindAllFrom(strict, s, 1)

\* str.replace(ch, "")
Replace(s, ch) == SelectSeq(s, LAMBDA c : c # ch)

---------------------------------------------------------------------------
(* Python values that are not str *)

\* A non-empty list holding one message object (a TRL conversational
\* completion): truthy, has a len(), and re.findall raises TypeError on it.
Messages == << "<message>" >>

IsStr(v) == v # Messages

---------------------------------------------------------------------------
(* extract_solution *)

\* solution_str[-_SOLUTION_CLIP_CHARS:] when longer than the clip length
ClipMutHead(s) ==
    IF Len(s) > _SOLUTION_CLIP_CHARS
    THEN SubSeq(s, 1, _SOLUTION_CLIP_CHARS)
    ELSE s

Clip(s) ==
    IF Len(s) > _SOLUTION_CLIP_CHARS
    THEN SubSeq(s, Len(s) - _SOLUTION_CLIP_CHARS + 1, Len(s))
    ELSE s

\* strict branch: last match, commas and dollar signs removed
StrictAnswerMutFirst(s) ==
    LET solutions == FindAll(TRUE, s)
    IN  IF solutions = <<>> THEN None
        ELSE Some(Replace(Replace(solutions[1], ","), "$"))

StrictAnswer(s) ==
    LET solutions == FindAll(TRUE, s)
    IN  IF solutions = <<>> THEN None
        ELSE Some(Replace(Replace(solutions[Len(solutions)], ","), "$"))

\* for answer in reversed(answers): first one not in _INVALID_ANSWERS
RECURSIVE LastValid(_, _)
LastValid(answers, k) ==
    IF k = 0 THEN None
    ELSE IF answers[k] \notin _INVALID_ANSWERS THEN Some(answers[k])
    ELSE LastValid(answers, k - 1)

\* flexible branch
FlexibleAnswerMutNoFilter(s) ==
    LET answers == FindAll(FALSE, s)
    IN  IF answers = <<>> THEN None ELSE Some(answers[Len(answers)])

FlexibleAnswer(s) ==
    LET answers == FindAll(FALSE, s)
    IN  IF answers = <<>> THEN None ELSE LastValid(answers, Len(answers))

\* The outcome of extract_solution(s, m): the exception raised ("" if none)
\* and the value returned.  The handler of re.error is not reachable: both
\* patterns are valid constants, so re.findall raises only on a non-str.
ExtractSolution(s, m) ==
    IF m \notin {"strict", "flexible"}
    THEN [exc |-> "ValueError", val |-> None]
    ELSE IF s = <<>> THEN [exc |-> "", val |-> None]
    ELSE IF ~IsStr(s) THEN [exc |-> "TypeError", val |-> None]
    ELSE IF m = "strict" THEN [exc |-> "", val |-> StrictAnswer(Clip(s))]
    ELSE [exc |-> "", val |-> FlexibleAnswer(Clip(s))]

---------------------------------------------------------------------------
(* compute_score *)

\* The outcome of compute_score: the exception raised ("" if none), the
\* reward returned, and how many times extract_solution was called.
ComputeScoreMutWrong(c, g, m, f, s) ==
    IF c = <<>> \/ g = <<>>
    THEN [exc |-> "", val |-> REWARD_WRONG, calls |-> 0]
    ELSE LET r == ExtractSolution(c, m)
         IN  IF r.exc # "" THEN [exc |-> r.exc, val |-> 0, calls |-> 1]
             ELSE IF r.val = None THEN [exc |-> "", val |-> REWARD_WRONG, calls |-> 1]
             ELSE IF r.val[1] = g THEN [exc |-> "", val |-> s, calls |-> 1]
             ELSE [exc |-> "", val |-> f, calls |-> 1]

\* a variant that compares the answers with the commas of both ignored
ComputeScoreMutCoerce(c, g, m, f, s) ==
    IF c = <<>> \/ g = <<>>
    THEN [exc |-> "", val |-> REWARD_NO_ANSWER, calls |-> 0]
    ELSE LET r == ExtractSolution(c, m)
         IN  IF r.exc # "" THEN [exc |-> r.exc, val |-> 0, calls |-> 1]
             ELSE IF r.val = None THEN [exc |-> "", val |-> REWARD_NO_ANSWER, calls |-> 1]
             ELSE IF Replace(r.val[1], ",") = Replace(g, ",")
                  THEN [exc |-> "", val |-> s, calls |-> 1]
             ELSE [exc |-> "", val |-> f, calls |-> 1]

\* a variant that validates the method before the emptiness test
ComputeScoreMutValidateFirst(c, g, m, f, s) ==
    LET r == ExtractSolution(c, m)
    IN  IF r.exc # "" THEN [exc |-> r.exc, val |-> 0, calls |-> 1]
        ELSE IF c = <<>> \/ g = <<>> \/ r.val = None
             THEN [exc |-> "", val |-> REWARD_NO_ANSWER, calls |-> 1]
        ELSE IF r.val[1] = g THEN [exc |-> "", val |-> s, calls |-> 1]
        ELSE [exc |-> "", val |-> f, calls |-> 1]

ComputeScore(c, g, m, f, s) ==
    IF c = <<>> \/ g = <<>>
    THEN [exc |-> "", val |-> REWARD_NO_ANSWER, calls |-> 0]
    ELSE LET r == ExtractSolution(c, m)
         IN  IF r.exc # "" THEN [exc |-> r.exc, val |-> 0, calls |-> 1]
             ELSE IF r.val = None THEN [exc |-> "", val |-> REWARD_NO_ANSWER, calls |-> 1]
             ELSE IF r.val[1] = g THEN [exc |-> "", val |-> s, calls |-> 1]
             ELSE [exc |-> "", val |-> f, calls |-> 1]

---------------------------------------------------------------------------
(* Inputs *)

MaxPieces == 4       \* pieces in a text given to extract_solution
MaxPadPieces == 2    \* pieces in a text that also holds the filler run
MaxScorePieces == 3  \* pieces in a completion given to compute_score
MaxBatch == 2        \* length of a list given to trl_reward_fn
PadLen == 299        \* length of the filler run that makes a text long

Pieces == << Marker, <<"-">>, <<"1">>, <<"2">>, <<",">>, <<".">>, <<"a">> >>

Pad == [i \in 1..PadLen |-> "a"]

PieceSeqs(k) == UNION { [1..n -> 1..Len(Pieces)] : n \in 0..k }

\* the pieces ps[from..], with the filler run inserted after the first p
\* pieces (p = -1: no filler)
RECURSIVE Concat(_, _, _)
Concat(ps, from, p) ==
    IF from > Len(ps) THEN (IF p = Len(ps) THEN Pad ELSE <<>>)
    ELSE (IF p = from - 1 THEN Pad ELSE <<>>) \o Pieces[ps[from]]
         \o Concat(ps, from + 1, p)

TextOf(ps, p) == Concat(ps, 1, p)

\* where the filler run may go in the pieces ps (-1: nowhere)
PadPlaces(ps) == {-1} \cup (IF Len(ps) <= MaxPadPieces THEN 0..Len(ps) ELSE {})

Methods == {"strict", "flexible", "fuzzy"}

GroundTruths == { <<>>, <<"1">>, <<"2">>, <<"1", ",">> }

FormatScores == {REWARD_FORMAT_CORRECT, REWARD_WRONG}
Scores == {REWARD_CORRECT, 5}

CompletionPool ==
    { <<>>, Marker \o <<"1">>, Marker \o <<"2">>, Marker \o <<",">>,
      <<"1">>, Messages }
SolutionPool == { <<>>, <<"1">>, <<"2">> }

Lists(pool, k) == UNION { [1..n -> pool] : n \in 0..k }

---------------------------------------------------------------------------
(* State machine *)

Idle ==
    /\ fn = "" /\ pc = "idle"
    /\ solution_str = <<>> /\ ground_truth = <<>> /\ method = ""
    /\ format_score = 0 /\ score = 0
    /\ completions = <<>> /\ solution = <<>>
    /\ idx = 0 /\ rewards = <<>>
    /\ exc = "" /\ answer = None /\ reward = 0 /\ returned = <<>>
    /\ extractCalls = 0

Init == Idle

\* a caller invokes extract_solution(t, m)
CallExtractSolution ==
    /\ pc = "idle"
    /\ \E ps \in PieceSeqs(MaxPieces), m \in Methods :
         \E p \in PadPlaces(ps) :
            LET t == TextOf(ps, p)
                r == ExtractSolution(t, m)
            IN  /\ fn' = "extract_solution"
                /\ solution_str' = t
                /\ method' = m
                /\ exc' = r.exc
                /\ answer' = r.val
                /\ extractCalls' = 1
    /\ pc' = "done"
    /\ UNCHANGED <<ground_truth, format_score, score, completions, solution,
                   idx, rewards, reward, returned>>

\* a caller invokes compute_score(c, g, m, f, s)
CallComputeScore ==
    /\ pc = "idle"
    /\ \E ps \in PieceSeqs(MaxScorePieces), g \in GroundTruths, m \in Methods,
          f \in FormatScores, s \in Scores :
            LET c == TextOf(ps, -1)
                r == ComputeScore(c, g, m, f, s)
            IN  /\ fn' = "compute_score"
                /\ solution_str' = c
                /\ ground_truth' = g
                /\ method' = m
                /\ format_score' = f
                /\ score' = s
                /\ exc' = r.exc
                /\ reward' = r.val
                /\ extractCalls' = r.calls
    /\ pc' = "done"
    /\ UNCHANGED <<completions, solution, idx, rewards, answer, returned>>

\* a variant with the length check inside the try block
CallTrlRewardFnMutInsideTry ==
    /\ pc = "idle"
    /\ \E cs \in Lists(CompletionPool, MaxBatch), gs \in Lists(SolutionPool, MaxBatch) :
         /\ fn' = "trl_reward_fn"
         /\ completions' = cs
         /\ solution' = gs
         /\ exc' = ""
         /\ IF Len(cs) # Len(gs) THEN pc' = "except"
            ELSE IF cs = <<>> THEN pc' = "done"
            ELSE pc' = "loop"
    /\ UNCHANGED <<solution_str, ground_truth, method, format_score, score,
                   idx, rewards, answer, reward, returned, extractCalls>>

\* a caller invokes trl_reward_fn(prompts, cs, gs): the length check, the
\* empty-input return, or entry into the try block
CallTrlRewardFn ==
    /\ pc = "idle"
    /\ \E cs \in Lists(CompletionPool, MaxBatch), gs \in Lists(SolutionPool, MaxBatch) :
         /\ fn' = "trl_reward_fn"
         /\ completions' = cs
         /\ solution' = gs
         /\ IF Len(cs) # Len(gs)
            THEN exc' = "ValueError" /\ pc' = "done"
            ELSE IF cs = <<>>
            THEN exc' = "" /\ pc' = "done"
            ELSE exc' = "" /\ pc' = "loop"
    /\ UNCHANGED <<solution_str, ground_truth, method, format_score, score,
                   idx, rewards, answer, reward, returned, extractCalls>>

\* a variant that inserts each reward at the front of the list
TrlLoopStepMutPrepend ==
    /\ pc = "loop"
    /\ idx < Len(completions)
    /\ LET r == ComputeScore(completions[idx + 1], solution[idx + 1], "strict",
                             REWARD_FORMAT_CORRECT, REWARD_CORRECT)
       IN  /\ extractCalls' = extractCalls + r.calls
           /\ IF r.exc # ""
              THEN pc' = "except" /\ UNCHANGED <<idx, rewards>>
              ELSE /\ rewards' = <<r.val>> \o rewards
                   /\ idx' = idx + 1
                   /\ pc' = IF idx + 1 = Len(completions) THEN "return" ELSE "loop"
    /\ UNCHANGED <<fn, solution_str, ground_truth, method, format_score, score,
                   completions, solution, exc, answer, reward, returned>>

\* one iteration of the for loop inside the try block
TrlLoopStep ==
    /\ pc = "loop"
    /\ idx < Len(completions)
    /\ LET r == ComputeScore(completions[idx + 1], solution[idx + 1], "strict",
                             REWARD_FORMAT_CORRECT, REWARD_CORRECT)
       IN  /\ extractCalls' = extractCalls + r.calls
           /\ IF r.exc # ""
              THEN pc' = "except" /\ UNCHANGED <<idx, rewards>>
              ELSE /\ rewards' = Append(rewards, r.val)
                   /\ idx' = idx + 1
                   /\ pc' = IF idx + 1 = Len(completions) THEN "return" ELSE "loop"
    /\ UNCHANGED <<fn, solution_str, ground_truth, method, format_score, score,
                   completions, solution, exc, answer, reward, returned>>

\* a variant that keeps the rewards computed before the fault
TrlExceptMutPartial ==
    /\ pc = "except"
    /\ rewards' = [i \in 1..Len(completions) |->
                      IF i <= Len(rewards) THEN rewards[i] ELSE REWARD_NO_ANSWER]
    /\ pc' = "return"
    /\ UNCHANGED <<fn, solution_str, ground_truth, method, format_score, score,
                   completions, solution, idx, exc, answer, reward, returned,
                   extractCalls>>

\* except Exception: every sample gets the lowest reward
TrlExcept ==
    /\ pc = "except"
    /\ rewards' = [i \in 1..Len(completions) |-> REWARD_NO_ANSWER]
    /\ pc' = "return"
    /\ UNCHANGED <<fn, solution_str, ground_truth, method, format_score, score,
                   completions, solution, idx, exc, answer, reward, returned,
                   extractCalls>>

\* return rewards
TrlReturn ==
    /\ pc = "return"
    /\ returned' = rewards
    /\ pc' = "done"
    /\ UNCHANGED <<fn, solution_str, ground_truth, method, format_score, score,
                   completions, solution, idx, rewards, exc, answer, reward,
                   extractCalls>>

NextExtract == CallExtractSolution
NextScore == CallComputeScore
NextBatch == CallTrlRewardFn \/ TrlLoopStep \/ TrlExcept \/ TrlReturn
Next == NextExtract \/ NextScore \/ NextBatch

SpecExtract == Init /\ [][NextExtract]_vars
SpecScore == Init /\ [][NextScore]_vars
SpecBatch == Init /\ [][NextBatch]_vars
Spec == Init /\ [][Next]_vars

---------------------------------------------------------------------------
(* Vocabulary of the properties, stated on the text and not on the scan *)

Supported == {"strict", "flexible"}

\* the characters a number token is made of: digits, dots, commas
IsTokenChar(c) == c \in {"0", "1", "2", "3", "4", "5", "6", "7", "8", "9", ".", ","}

\* the final 300 characters of t
Window(t) ==
    LET n == IF Len(t) < 300 THEN Len(t) ELSE 300
    IN  [i \in 1..n |-> t[Len(t) - n + i]]

\* t holds "#### " at p, followed by a number token
IsOccurrence(t, p) ==
    /\ p + 5 <= Len(t)
    /\ \A k \in 0..3 : t[p + k] = "#"
    /\ t[p + 4] = " "
    /\ \/ IsTokenChar(t[p + 5])
       \/ t[p + 5] = "-" /\ p + 6 <= Len(t) /\ IsTokenChar(t[p + 6])

Occurrences(t) == { p \in 1..Len(t) : IsOccurrence(t, p) }

Last(S) == CHOOSE p \in S : \A q \in S : q <= p

\* the number token that starts at q: an optional minus sign, then the
\* longest run of token characters
TokenAt(t, q) ==
    LET d == IF t[q] = "-" THEN q + 1 ELSE q
        e == CHOOSE e \in d..Len(t) :
                /\ \A k \in d..e : IsTokenChar(t[k])
                /\ e = Len(t) \/ ~IsTokenChar(t[e + 1])
    IN  SubSeq(t, q, e)

\* the token of the last occurrence in t, commas and dollar signs removed
LastOccurrenceAnswer(t) ==
    SelectSeq(TokenAt(t, Last(Occurrences(t)) + 5), LAMBDA c : c \notin {",", "$"})

\* the positions where a run of token characters ends
TokenEnds(t) ==
    { e \in 1..Len(t) : IsTokenChar(t[e]) /\ (e = Len(t) \/ ~IsTokenChar(t[e + 1])) }

\* the numeric token that ends at e: the run, with the minus sign before it
TokenEndingAt(t, e) ==
    LET b == CHOOSE b \in 1..e :
                /\ \A k \in b..e : IsTokenChar(t[k])
                /\ b = 1 \/ ~IsTokenChar(t[b - 1])
    IN  IF b > 1 /\ t[b - 1] = "-" THEN SubSeq(t, b - 1, e) ELSE SubSeq(t, b, e)

ValidTokenEnds(t) ==
    { e \in TokenEnds(t) : TokenEndingAt(t, e) \notin { <<>>, <<".">> } }

ExtractReturned(m) == fn = "extract_solution" /\ method = m /\ exc = ""

---------------------------------------------------------------------------
(* Properties of extract_solution, checked under SpecExtract *)

\* C2 as stated: for every text, of any length, that contains an occurrence
\* of "#### " followed by a number token, strict extraction returns the token
\* of the last occurrence in the text with commas and dollar signs removed.
C2_AnyLength ==
    (ExtractReturned("strict") /\ Occurrences(solution_str) # {})
        => answer = Some(LastOccurrenceAnswer(solution_str))

\* C2 amended: when the final 300 characters of the text contain an
\* occurrence of "#### " followed by a number token, strict extraction
\* returns the token of the last occurrence within those 300 characters with
\* commas and dollar signs removed, and never "no match".
C2_LastOccurrenceInWindow ==
    (ExtractReturned("strict") /\ Occurrences(Window(solution_str)) # {})
        => /\ answer # None
           /\ answer = Some(LastOccurrenceAnswer(Window(solution_str)))

\* C2 witness: two occurrences with different tokens, the last one returned
C2_Witness ==
    /\ ExtractReturned("strict")
    /\ Cardinality(Occurrences(solution_str)) = 2
    /\ solution_str = Marker \o <<"1">> \o Marker \o <<"2">>
    /\ answer = Some(<<"2">>)

\* C3: for a non-empty text, flexible extraction returns unmodified the last
\* numeric token of the final 300 characters that is neither "" nor ".", and
\* "no match" exactly when there is no such token.
C3_FlexibleLastValidToken ==
    (ExtractReturned("flexible") /\ solution_str # <<>>)
        => LET w == Window(solution_str)
           IN  IF ValidTokenEnds(w) = {}
               THEN answer = None
               ELSE answer = Some(TokenEndingAt(w, Last(ValidTokenEnds(w))))

\* C3 witness: the last token is "." and is skipped; the token before it is
\* returned with its comma
C3_Witness ==
    /\ ExtractReturned("flexible")
    /\ solution_str = <<"1", ",", "a", ".">>
    /\ answer = Some(<<"1", ",">>)

\* C8: for a text longer than 300 characters, extraction equals extraction
\* of its last 300 characters; in strict mode the result is "no match" when
\* the window holds no occurrence, whatever lies before it.
C8_OnlyWindowMatters ==
    (fn = "extract_solution" /\ method \in Supported /\ Len(solution_str) > 300)
        => /\ [exc |-> exc, val |-> answer]
                = ExtractSolution(Window(solution_str), method)
           /\ (method = "strict" /\ Occurrences(Window(solution_str)) = {})
                => answer = None

\* C8 witness: a numeric token straddles the left edge of the window and only
\* its part inside the window is returned
C8_Witness ==
    /\ ExtractReturned("flexible")
    /\ Len(solution_str) = 301
    /\ solution_str[1] = "1" /\ solution_str[2] = "2"
    /\ answer = Some(<<"2">>)

\* C9: every result of extract other than "no match" is a normalized numeric
\* token: never "" or ".", and in strict mode non-empty, with a digit and
\* without comma or dollar sign.
C9_ResultIsNumericToken ==
    (fn = "extract_solution" /\ exc = "" /\ answer # None)
        => /\ answer[1] \notin { <<>>, <<".">> }
           /\ method = "strict" =>
                /\ \E i \in 1..Len(answer[1]) : answer[1][i] \in Digits
                /\ \A i \in 1..Len(answer[1]) : answer[1][i] \notin {",", "$"}

---------------------------------------------------------------------------
(* Properties of compute_score, checked under SpecScore *)

ScoreCalled == fn = "compute_score"

\* C1: with a supported mode, score returns NO_ANSWER if completion or
\* ground_truth is empty, without calling extract; otherwise NO_ANSWER if
\* extract gives "no match"; otherwise correct_reward if the extracted token
\* equals ground_truth character for character; otherwise format_reward.
C1_ThreeOutcomesInOrder ==
    (ScoreCalled /\ method \in Supported)
        => /\ exc = ""
           /\ IF solution_str = <<>> \/ ground_truth = <<>>
              THEN reward = -3 /\ extractCalls = 0
              ELSE LET r == ExtractSolution(solution_str, method)
                   IN  IF r.val = None THEN reward = -3
                       ELSE IF r.val[1] = ground_truth THEN reward = score
                       ELSE reward = format_score

\* C1 witness: the extracted "1" differs from the ground truth "1," only by
\* the comma, and the outcome is format_reward
C1_Witness ==
    /\ ScoreCalled /\ method = "strict"
    /\ solution_str = Marker \o <<"1", ",">>
    /\ ground_truth = <<"1", ",">>
    /\ format_score # score
    /\ reward = format_score

---------------------------------------------------------------------------
(* Properties checked under Spec (every entry point) *)

\* C6 as stated: with an unsupported mode, extract and score end in an
\* invalid-argument error for every input, empty ones included.
C6_AlwaysLoud ==
    (fn \in {"extract_solution", "compute_score"} /\ method \notin Supported)
        => exc = "ValueError"

\* C6 amended: with an unsupported mode, extract ends in an invalid-argument
\* error for every input; score ends in that error whenever completion and
\* ground_truth are both non-empty, and returns NO_ANSWER without an error
\* and without calling extract when either of them is empty.
C6_LoudUnlessEmpty ==
    /\ (fn = "extract_solution" /\ method \notin Supported) => exc = "ValueError"
    /\ (ScoreCalled /\ method \notin Supported)
        => IF solution_str = <<>> \/ ground_truth = <<>>
           THEN exc = "" /\ reward = -3 /\ extractCalls = 0
           ELSE exc = "ValueError"

\* C6 witness: score with an unsupported mode and an empty completion
\* returns NO_ANSWER
C6_Witness ==
    /\ ScoreCalled /\ method = "fuzzy"
    /\ solution_str = <<>> /\ ground_truth # <<>>
    /\ exc = "" /\ reward = -3

\* C10: with a supported mode the value score returns is NO_ANSWER,
\* format_reward or correct_reward; the no-answer outcome is -0.3 whatever
\* the overrides are; 0.0 is returned only when passed as an override; every
\* element of a batchScore result is one of -0.3, 0.3, 1.0.
C10_RewardRange ==
    /\ (ScoreCalled /\ method \in Supported)
        => /\ reward \in {-3, format_score, score}
           /\ (\/ solution_str = <<>>
               \/ ground_truth = <<>>
               \/ ExtractSolution(solution_str, method).val = None) => reward = -3
           /\ reward = 0 => (format_score = 0 \/ score = 0)
    /\ fn = "trl_reward_fn"
        => /\ \A i \in 1..Len(rewards) : rewards[i] \in {-3, 3, 10}
           /\ \A i \in 1..Len(returned) : returned[i] \in {-3, 3, 10}

\* C10 witness: both overrides differ from the defaults, one of them is 0.0,
\* and the no-answer outcome is still -0.3
C10_Witness ==
    /\ ScoreCalled /\ method = "strict"
    /\ format_score = 0 /\ score = 5
    /\ solution_str # <<>> /\ ground_truth # <<>>
    /\ reward = -3

---------------------------------------------------------------------------
(* Properties of trl_reward_fn, checked under SpecBatch *)

PairScore(i) ==
    ComputeScore(completions[i], solution[i], "strict", 3, 10)

\* scoring some pair of the batch raises
Faulty ==
    /\ Len(completions) = Len(solution)
    /\ \E i \in 1..Len(completions) : PairScore(i).exc # ""

BatchDone == fn = "trl_reward_fn" /\ pc = "done"

\* C4: for two non-empty sequences of equal length and no fault, batchScore
\* returns one reward per pair, the i-th being score of the i-th pair with
\* mode strict and the default rewards, in input order.
C4_PairwiseInOrder ==
    (/\ BatchDone
     /\ completions # <<>>
     /\ Len(completions) = Len(solution)
     /\ ~Faulty)
        => /\ exc = ""
           /\ Len(returned) = Len(completions)
           /\ \A i \in 1..Len(completions) : returned[i] = PairScore(i).val

\* C4 witness: two pairs with different rewards
C4_Witness ==
    /\ BatchDone
    /\ completions = << Marker \o <<"1">>, Marker \o <<"2">> >>
    /\ solution = << <<"1">>, <<"1">> >>
    /\ returned = <<10, 3>>

\* C5: if scoring any pair raises, batchScore does not propagate the fault
\* and returns len(completions) elements, all NO_ANSWER; no reward computed
\* before the fault survives.
C5_UniformFallback ==
    (BatchDone /\ Faulty)
        => /\ exc = ""
           /\ returned = [i \in 1..Len(completions) |-> -3]

\* C5 witness: the first pair scored 1.0 before the second raised
C5_Witness ==
    /\ BatchDone
    /\ completions = << Marker \o <<"1">>, Messages >>
    /\ solution = << <<"1">>, <<"1">> >>
    /\ idx = 1
    /\ returned = <<-3, -3>>

\* C7: a length mismatch fails at once with an error that reaches the caller
\* and is not turned into rewards; two empty sequences give the empty
\* sequence; in both cases nothing is scored.
C7_LengthCheckFirst ==
    /\ (fn = "trl_reward_fn" /\ Len(completions) # Len(solution))
        => /\ pc = "done" /\ exc = "ValueError"
           /\ idx = 0 /\ rewards = <<>> /\ returned = <<>> /\ extractCalls = 0
    /\ (fn = "trl_reward_fn" /\ completions = <<>> /\ solution = <<>>)
        => /\ pc = "done" /\ exc = ""
           /\ idx = 0 /\ rewards = <<>> /\ returned = <<>> /\ extractCalls = 0

\* C7 witness: one list is empty, the other is not, and a pair of the longer
\* list would raise if scored
C7_Witness ==
    /\ fn = "trl_reward_fn"
    /\ completions = << Messages >> /\ solution = <<>>
    /\ exc = "ValueError"

=============================================================================
